---- MODULE Spec2Model ----
(***************************************************************************)
(* Model of src/src/main.rs: the partitioned parallel aggregation of a    *)
(* "key;value\n" file.  main plans newline-aligned chunk offsets, spawns  *)
(* one scoped thread per offset, every thread tokenizes its chunk into a  *)
(* local BTreeMap and merges it into the shared map under a Mutex, and     *)
(* main prints the shared map once all threads have been joined.          *)
(*                                                                         *)
(* Bytes are their ASCII codes.  The input values of the model are NaN or *)
(* have at most one fractional digit.  A parsed decimal, a minimum and a  *)
(* maximum are held as the whole number of tenths of the decimal they     *)
(* print as: parsing is monotone and "{:.1}" of the parsed f64 gives the  *)
(* decimal back.  A sum is held as the f64 itself, each addition and the  *)
(* division by the count rounded to nearest as IEEE 754 rounds them.      *)
(***************************************************************************)
EXTENDS Integers, Sequences, FiniteSets, TLC

VARIABLES file, cores, pcMain, iter, pos, buf, starting_offsets,
          wpc, block_results, fold_order, lockHolder, results, output,
          agg

vars == <<file, cores, pcMain, iter, pos, buf, starting_offsets,
          wpc, block_results, fold_order, lockHolder, results, output, agg>>

(***************************************************************************)
(* Bounds of the model.                                                    *)
(***************************************************************************)
\* largest value of available_parallelism() tried
MaxCores == 5
\* largest number of lines in a generated file
MaxRecords == 2

(***************************************************************************)
(* Bytes.                                                                  *)
(***************************************************************************)
Ascii ==
    [c \in {"NUL", "NL", " ", "+", ",", "-", ".", "/", "0", "1", "2", "3",
            "4", "5", "6", "7", "8", "9", ";", "=", "A", "B", "N", "S", "X", "Y",
            "a", "b", "i", "n", "o", "t", "x", "{", "}"} |->
        CASE c = "NUL" -> 0   [] c = "NL" -> 10  [] c = " " -> 32
          [] c = "+" -> 43    [] c = "N" -> 78
          [] c = "," -> 44    [] c = "-" -> 45   [] c = "." -> 46
          [] c = "/" -> 47    [] c = "0" -> 48   [] c = "1" -> 49
          [] c = "2" -> 50    [] c = "3" -> 51   [] c = "4" -> 52
          [] c = "5" -> 53    [] c = "6" -> 54   [] c = "7" -> 55
          [] c = "8" -> 56    [] c = "9" -> 57   [] c = ";" -> 59
          [] c = "=" -> 61    [] c = "A" -> 65   [] c = "B" -> 66
          [] c = "S" -> 83    [] c = "X" -> 88   [] c = "Y" -> 89
          [] c = "a" -> 97    [] c = "b" -> 98   [] c = "i" -> 105
          [] c = "n" -> 110   [] c = "o" -> 111  [] c = "t" -> 116
          [] c = "x" -> 120   [] c = "{" -> 123  [] c = "}" -> 125]

\* the bytes of a text given as a sequence of one-character strings
Bytes(s) == [k \in 1..Len(s) |-> Ascii[s[k]]]

NL   == Ascii["NL"]
SEMI == Ascii[";"]
NUL  == Ascii["NUL"]

(***************************************************************************)
(* f64.  A finite f64 is a sign, a 53-bit significand and the exponent of  *)
(* the significand's lowest bit; +0.0 has the empty significand.  Natural  *)
(* numbers of any size are sequences of 15-bit limbs, the lowest limb      *)
(* first, with no zero limb at the high end.  The arithmetic is written as *)
(* functions: a function is applied to the values of its arguments.  NaN   *)
(* has an exponent above every finite f64's.                               *)
(***************************************************************************)
\* the number of significand bits of an f64
MantissaBits == 53

LimbBits == 15
Base == 2 ^ LimbBits

Limbs == Seq(Nat)

F64 == [neg : BOOLEAN, exp : Int, man : Limbs]

LimbsOf[n \in Nat] == IF n = 0 THEN <<>> ELSE <<n % Base>> \o LimbsOf[n \div Base]

NatOf[b \in Limbs] == IF Len(b) = 0 THEN 0 ELSE b[1] + Base * NatOf[Tail(b)]

TrimLimbs[b \in Limbs] ==
    IF Len(b) = 0 \/ b[Len(b)] # 0 THEN b
    ELSE TrimLimbs[SubSeq(b, 1, Len(b) - 1)]

\* the number of bits of a limb
LimbLen[n \in Nat] ==
    CHOOSE k \in 0..LimbBits : n < 2 ^ k /\ (k = 0 \/ n >= 2 ^ (k - 1))

\* the number of bits of b
BitLen[b \in Limbs] ==
    IF Len(b) = 0 THEN 0 ELSE LimbBits * (Len(b) - 1) + LimbLen[b[Len(b)]]

\* bit i of b, the lowest bit being bit 1
BitAt[b \in Limbs, i \in Int] ==
    IF i >= 1 /\ (i - 1) \div LimbBits + 1 <= Len(b)
    THEN (b[(i - 1) \div LimbBits + 1] \div 2 ^ ((i - 1) % LimbBits)) % 2
    ELSE 0

\* a * m + carry from limb i on, for m <= Base
MulFrom[a \in Limbs, m \in Nat, i \in Nat, carry \in Nat] ==
    IF i > Len(a) THEN LimbsOf[carry]
    ELSE <<(a[i] * m + carry) % Base>>
         \o MulFrom[a, m, i + 1, (a[i] * m + carry) \div Base]

MulSmall[a \in Limbs, m \in Nat] == MulFrom[a, m, 1, 0]

\* quotient and remainder of a by d <= Base, from the high limb down; q holds
\* the quotient limbs found so far
DivFrom[a \in Limbs, d \in Nat, i \in Nat, rem \in Nat, q \in Limbs] ==
    IF i = 0 THEN [q |-> TrimLimbs[q], rem |-> rem]
    ELSE DivFrom[a, d, i - 1, (rem * Base + a[i]) % d,
                 <<(rem * Base + a[i]) \div d>> \o q]

DivSmall[a \in Limbs, d \in Nat] == DivFrom[a, d, Len(a), 0, <<>>]

\* b * 2^k
ShiftLeft[b \in Limbs, k \in Nat] ==
    IF Len(b) = 0 THEN b
    ELSE [i \in 1..(k \div LimbBits) |-> 0] \o MulSmall[b, 2 ^ (k % LimbBits)]

\* b \div 2^k
ShiftRight[b \in Limbs, k \in Nat] ==
    IF k \div LimbBits >= Len(b) THEN <<>>
    ELSE DivSmall[SubSeq(b, k \div LimbBits + 1, Len(b)), 2 ^ (k % LimbBits)].q

\* one of the k lowest bits of b is 1
LowBits[b \in Limbs, k \in Int] == \E i \in 1..k : BitAt[b, i] = 1

LimbAt(a, i) == IF i <= Len(a) THEN a[i] ELSE 0

AddFrom[a \in Limbs, b \in Limbs, i \in Nat, carry \in Nat] ==
    IF i > Len(a) /\ i > Len(b) THEN LimbsOf[carry]
    ELSE <<(LimbAt(a, i) + LimbAt(b, i) + carry) % Base>>
         \o AddFrom[a, b, i + 1, (LimbAt(a, i) + LimbAt(b, i) + carry) \div Base]

AddLimbs[a \in Limbs, b \in Limbs] == AddFrom[a, b, 1, 0]

\* a - b, for a >= b
SubFrom[a \in Limbs, b \in Limbs, i \in Nat, borrow \in Nat] ==
    IF i > Len(a) THEN <<>>
    ELSE <<(a[i] - LimbAt(b, i) - borrow) % Base>>
         \o SubFrom[a, b, i + 1, IF a[i] - LimbAt(b, i) - borrow < 0 THEN 1 ELSE 0]

SubLimbs[a \in Limbs, b \in Limbs] == TrimLimbs[SubFrom[a, b, 1, 0]]

\* a < b
LessLimbs[a \in Limbs, b \in Limbs] ==
    \/ Len(a) < Len(b)
    \/ /\ Len(a) = Len(b)
       /\ \E i \in 1..Len(a) :
             /\ a[i] < b[i]
             /\ \A j \in (i + 1)..Len(a) : a[j] = b[j]

\* the shift of a numerator of numLen bits that gives its quotient by a
\* number of denLen bits two bits more than a significand
GuardShift[numLen \in Nat, denLen \in Nat] ==
    IF MantissaBits + 2 + denLen > numLen
    THEN MantissaBits + 2 + denLen - numLen ELSE 0

F64Zero == [neg |-> FALSE, exp |-> 0, man |-> <<>>]

\* the exponent field of a NaN: 2047 less the bias 1023
NaNExp == 1024

F64NaN == [neg |-> FALSE, exp |-> NaNExp, man |-> <<1>>]

is_nan(x) == x.exp = NaNExp

\* a parsed NaN among the values held in tenths: no decimal of the model
\* is as large
F64_NAN == 2000000

\* a significand of up to 54 bits at exponent exp, made one of 53 bits
Normal[neg \in BOOLEAN, man \in Limbs, exp \in Int] ==
    IF BitLen[man] > MantissaBits
    THEN [neg |-> neg, exp |-> exp + 1, man |-> ShiftRight[man, 1]]
    ELSE [neg |-> neg, exp |-> exp - (MantissaBits - BitLen[man]),
          man |-> ShiftLeft[man, MantissaBits - BitLen[man]]]

\* bits with its k lowest bits rounded away, to nearest and a tie to even;
\* sticky tells that a fraction below the lowest bit is not 0
RoundBits[bits \in Limbs, k \in Nat, sticky \in BOOLEAN] ==
    IF /\ BitAt[bits, k] = 1
       /\ (sticky \/ LowBits[bits, k - 1] \/ BitAt[bits, k + 1] = 1)
    THEN AddLimbs[ShiftRight[bits, k], <<1>>]
    ELSE ShiftRight[bits, k]

\* the f64 nearest to (bits + a fraction) * 2^exp, ties to even; sticky
\* tells that the fraction is not 0
RoundF64[neg \in BOOLEAN, bits \in Limbs, exp \in Int, sticky \in BOOLEAN] ==
    IF Len(bits) = 0 THEN F64Zero
    ELSE IF BitLen[bits] <= MantissaBits THEN Normal[neg, bits, exp]
    ELSE Normal[neg, RoundBits[bits, BitLen[bits] - MantissaBits, sticky],
                exp + BitLen[bits] - MantissaBits]

\* the f64 nearest to (num / den) * 2^exp
RoundQuotient[neg \in BOOLEAN, num \in Limbs, den \in Nat, exp \in Int, k \in Nat] ==
    RoundF64[neg, DivSmall[ShiftLeft[num, k], den].q, exp - k,
             DivSmall[ShiftLeft[num, k], den].rem # 0]

\* the f64 that parse::<f64>() gives for the decimal t / 10
F64OfTenths[t \in Int] ==
    IF t = F64_NAN THEN F64NaN ELSE
    RoundQuotient[t < 0, LimbsOf[IF t < 0 THEN 0 - t ELSE t], 10, 0,
                  GuardShift[BitLen[LimbsOf[IF t < 0 THEN 0 - t ELSE t]],
                             BitLen[LimbsOf[10]]]]

\* x + y for significands mx and my at the one exponent e
AddAligned[xneg \in BOOLEAN, mx \in Limbs, yneg \in BOOLEAN, my \in Limbs, e \in Int] ==
    IF xneg = yneg THEN RoundF64[xneg, AddLimbs[mx, my], e, FALSE]
    ELSE IF mx = my THEN F64Zero
    ELSE IF LessLimbs[mx, my] THEN RoundF64[yneg, SubLimbs[my, mx], e, FALSE]
    ELSE RoundF64[xneg, SubLimbs[mx, my], e, FALSE]

\* x + y, rounded to nearest; NaN when x or y is
F64Add[x \in F64, y \in F64] ==
    IF is_nan(x) \/ is_nan(y) THEN F64NaN
    ELSE IF Len(x.man) = 0 THEN y
    ELSE IF Len(y.man) = 0 THEN x
    ELSE IF x.exp <= y.exp
    THEN AddAligned[x.neg, x.man, y.neg, ShiftLeft[y.man, y.exp - x.exp], x.exp]
    ELSE AddAligned[x.neg, ShiftLeft[x.man, x.exp - y.exp], y.neg, y.man, y.exp]

\* x / (n as f64) for a count n >= 1, rounded to nearest
F64DivCount[x \in F64, n \in Nat] ==
    IF is_nan(x) THEN F64NaN ELSE
    RoundQuotient[x.neg, x.man, n, x.exp,
                  GuardShift[BitLen[x.man], BitLen[LimbsOf[n]]]]

\* n10 * 2^(-k) rounded to a whole number, ties to even
RoundedShift[n10 \in Limbs, k \in Int] ==
    IF k <= 0 THEN NatOf[ShiftLeft[n10, 0 - k]]
    ELSE NatOf[RoundBits[n10, k, FALSE]]

\* |x| * 10 rounded to a whole number, ties to even: the digits "{:.1}"
\* prints for x (the formatter rounds the exact binary value)
F64RoundedTenths[x \in F64] ==
    IF Len(x.man) = 0 THEN 0 ELSE RoundedShift[MulSmall[x.man, 10], 0 - x.exp]

(***************************************************************************)
(* struct Station and its methods.                                         *)
(***************************************************************************)
\* f64::MAX and f64::MIN: any magnitude above every value and sum of the model
F64_MAX == 1000000
F64_MIN == -1000000

\* f64::min and f64::max: when one argument is NaN the other is returned
FMin(a, b) == IF b = F64_NAN THEN a ELSE IF a = F64_NAN THEN b
              ELSE IF a <= b THEN a ELSE b
FMax(a, b) == IF b = F64_NAN THEN a ELSE IF a = F64_NAN THEN b
              ELSE IF a >= b THEN a ELSE b

StationDefault == [min |-> F64_MAX, max |-> F64_MIN, sum |-> F64Zero, values_read |-> 0]

update(s, value) ==
    [min |-> FMin(s.min, value), max |-> FMax(s.max, value),
     sum |-> F64Add[s.sum, F64OfTenths[value]], values_read |-> s.values_read + 1]

merge(s, other) ==
    [min |-> FMin(s.min, other.min), max |-> FMax(s.max, other.max),
     sum |-> F64Add[s.sum, other.sum], values_read |-> s.values_read + other.values_read]

\* BTreeMap::new()
EmptyMap == [k \in {} |-> StationDefault]

\* map.entry(key).or_default(): the station under key, a default one when absent
EntryOrDefault(m, key) == IF key \in DOMAIN m THEN m[key] ELSE StationDefault

\* the map with key bound to station
MapPut(m, key, station) ==
    [k \in DOMAIN m \cup {key} |-> IF k = key THEN station ELSE m[k]]

(***************************************************************************)
(* str::parse::<f64>() and the "{:.1}" formatting of an f64, in tenths.    *)
(***************************************************************************)
IsDigit(b) == b \in Ascii["0"]..Ascii["9"]

\* the number a sequence of decimal digits denotes
RECURSIVE DigitsValue(_)
DigitsValue(d) ==
    IF Len(d) = 0 THEN 0
    ELSE 10 * DigitsValue(SubSeq(d, 1, Len(d) - 1)) + (d[Len(d)] - Ascii["0"])

\* the literal "nan", in letters of either case
IsNaNLiteral(body) ==
    /\ Len(body) = 3
    /\ body[1] \in {Ascii["N"], Ascii["n"]}
    /\ body[2] \in {Ascii["A"], Ascii["a"]}
    /\ body[3] \in {Ascii["N"], Ascii["n"]}

\* parse::<f64>(): an optional sign, then "nan" or digits with at most one
\* '.' and at least one digit.  Exponents and the literals inf, infinity
\* are not modelled, and fractional digits after the first are dropped: no
\* value field of the model's files holds any of them.
ParseF64[s \in Seq(Nat)] ==
    LET signed == Len(s) > 0 /\ s[1] \in {Ascii["-"], Ascii["+"]}
        body   == IF signed THEN Tail(s) ELSE s
        dots   == {k \in 1..Len(body) : body[k] = Ascii["."]}
        dot    == IF dots = {} THEN Len(body) + 1 ELSE CHOOSE k \in dots : TRUE
        whole  == SubSeq(body, 1, dot - 1)
        frac   == SubSeq(body, dot + 1, Len(body))
        ok     == /\ Cardinality(dots) <= 1
                  /\ \A k \in 1..Len(body) : k \in dots \/ IsDigit(body[k])
                  /\ Len(whole) + Len(frac) >= 1
        mag    == 10 * DigitsValue(whole)
                  + (IF Len(frac) = 0 THEN 0 ELSE frac[1] - Ascii["0"])
    IN  IF IsNaNLiteral(body) THEN [ok |-> TRUE, val |-> F64_NAN]
        ELSE IF ~ok THEN [ok |-> FALSE, val |-> 0]
        ELSE [ok |-> TRUE,
              val |-> IF signed /\ s[1] = Ascii["-"] THEN 0 - mag ELSE mag]

RECURSIVE DecDigits(_)
DecDigits(n) ==
    IF n < 10 THEN <<Ascii["0"] + n>>
    ELSE DecDigits(n \div 10) \o <<Ascii["0"] + (n % 10)>>

\* "{:.1}" of a value that is a whole number of tenths
Fmt1(t) ==
    LET mag == IF t < 0 THEN 0 - t ELSE t
    IN  (IF t < 0 THEN <<Ascii["-"]>> ELSE <<>>)
        \o DecDigits(mag \div 10) \o <<Ascii["."], Ascii["0"] + (mag % 10)>>

\* "{:.1}" of sum / values_read as f64: the f64 quotient rounded to the
\* nearest tenth, a tie to the even digit, the sign of a negative quotient
\* kept; 0.0 / 0.0 is NaN, and so is NaN / n
FmtMean(sum, n) ==
    IF n = 0 \/ is_nan(sum) THEN Bytes(<<"N", "a", "N">>)
    ELSE (IF F64DivCount[sum, n].neg THEN <<Ascii["-"]>> ELSE <<>>)
         \o DecDigits(F64RoundedTenths[F64DivCount[sum, n]] \div 10)
         \o <<Ascii["."], Ascii["0"] + (F64RoundedTenths[F64DivCount[sum, n]] % 10)>>

\* impl Display for Station
StationDisplay(s) ==
    Fmt1(s.min) \o <<Ascii["/"]>> \o FmtMean(s.sum, s.values_read)
    \o <<Ascii["/"]>> \o Fmt1(s.max)

(***************************************************************************)
(* The worker's tokenizer.  Indices are the source's, counted from 0.      *)
(***************************************************************************)
\* contents[from..to]
Slice(contents, from, to) == SubSeq(contents, from + 1, to)

\* LastSemicolon with the first ';' of the line in the place of the last
FirstSemicolon(contents, last_idx, i) ==
    LET semis == {j \in last_idx..(i - 1) : contents[j + 1] = SEMI}
    IN  IF semis = {} THEN 0
        ELSE CHOOSE j \in semis : \A k \in semis : j <= k

\* the inner for loop: the index of the last ';' in last_idx..i, else 0
LastSemicolon(contents, last_idx, i) ==
    LET semis == {j \in last_idx..(i - 1) : contents[j + 1] = SEMI}
    IN  IF semis = {} THEN 0
        ELSE CHOOSE j \in semis : \A k \in semis : k <= j

\* one record: slicing panics when a range starts after its end, unwrap
\* panics when the value is no number
ProcessLine[contents \in Seq(Nat), last_idx \in Nat, i \in Nat] ==
    LET semicolon_idx == LastSemicolon(contents, last_idx, i)
        sliceOk == last_idx <= semicolon_idx /\ semicolon_idx + 1 <= i
        temp    == ParseF64[Slice(contents, semicolon_idx + 1, i)]
    IN  IF sliceOk /\ temp.ok
        THEN [panic |-> FALSE,
              name  |-> Slice(contents, last_idx, semicolon_idx),
              temp  |-> temp.val]
        ELSE [panic |-> TRUE, name |-> <<>>, temp |-> 0]

\* the while loop from index i on; it ends with the map and last_idx
ScanLines[contents \in Seq(Nat), i \in Nat, last_idx \in Nat, m \in Any] ==
    IF i >= Len(contents)
    THEN [panic |-> FALSE, map |-> m, last_idx |-> last_idx]
    ELSE IF contents[i + 1] = NL
    THEN LET line == ProcessLine[contents, last_idx, i]
         IN  IF line.panic
             THEN [panic |-> TRUE, map |-> m, last_idx |-> last_idx]
             ELSE ScanLines[contents, i + 1, i + 1,
                            MapPut(m, line.name,
                                   update(EntryOrDefault(m, line.name), line.temp))]
    ELSE ScanLines[contents, i + 1, last_idx, m]

\* the last line: taken when last_idx < content_len - 1.  With an empty
\* buffer content_len - 1 underflows: a panic with overflow checks, and
\* without them the wrapped bound sends the empty buffer to ProcessLine,
\* whose slice 1..0 panics.
LastLine[contents \in Seq(Nat), scanned \in Any] ==
    LET content_len == Len(contents)
    IN  IF scanned.panic \/ content_len = 0
        THEN [panic |-> TRUE, map |-> scanned.map]
        ELSE IF scanned.last_idx < content_len - 1
        THEN LET line == ProcessLine[contents, scanned.last_idx, content_len]
             IN  IF line.panic
                 THEN [panic |-> TRUE, map |-> scanned.map]
                 ELSE [panic |-> FALSE,
                       map |-> MapPut(scanned.map, line.name,
                                      update(EntryOrDefault(scanned.map, line.name),
                                             line.temp))]
        ELSE [panic |-> FALSE, map |-> scanned.map]

\* the chunk as read, contents.last().unwrap() and the pop of one newline
TrimChunk(raw) ==
    IF Len(raw) = 0 THEN [panic |-> TRUE, contents |-> raw]
    ELSE IF raw[Len(raw)] = NL
    THEN [panic |-> FALSE, contents |-> SubSeq(raw, 1, Len(raw) - 1)]
    ELSE [panic |-> FALSE, contents |-> raw]

\* the whole of a worker's processing of its bytes
ProcessChunk[raw \in Seq(Nat)] ==
    LET trimmed == TrimChunk(raw)
    IN  IF trimmed.panic THEN [panic |-> TRUE, map |-> EmptyMap]
        ELSE LastLine[trimmed.contents,
                      ScanLines[trimmed.contents, 0, 0, EmptyMap]]

(***************************************************************************)
(* BTreeMap iteration order and the printing of the result map.           *)
(***************************************************************************)
\* the order of byte strings: a < b
RECURSIVE LexLess(_, _)
LexLess(a, b) ==
    IF Len(b) = 0 THEN FALSE
    ELSE IF Len(a) = 0 THEN TRUE
    ELSE IF a[1] # b[1] THEN a[1] < b[1]
    ELSE LexLess(Tail(a), Tail(b))

\* the keys of a BTreeMap in iteration order
RECURSIVE SortedKeys(_)
SortedKeys(keys) ==
    IF keys = {} THEN <<>>
    ELSE LET first == CHOOSE k \in keys : \A o \in keys \ {k} : LexLess(k, o)
         IN  <<first>> \o SortedKeys(keys \ {first})

\* print!("{}={}", name, station)
PrintEntry(m, key) == key \o <<Ascii["="]>> \o StationDisplay(m[key])

\* the while loop over the first len - 1 entries, each followed by ", "
RECURSIVE PrintLeading(_, _, _)
PrintLeading(m, keys, n) ==
    IF n = 0 THEN <<>>
    ELSE PrintLeading(m, keys, n - 1)
         \o PrintEntry(m, keys[n]) \o <<Ascii[","], Ascii[" "]>>

\* lines 153-163.  On an empty map len() - 1 underflows: a panic with
\* overflow checks, and without them last_key_value().unwrap() panics;
\* "{" has been printed by then.
PrintResults(m) ==
    LET keys == SortedKeys(DOMAIN m)
        n    == Len(keys)
    IN  IF n = 0 THEN [panic |-> TRUE, out |-> <<Ascii["{"]>>]
        ELSE [panic |-> FALSE,
              out |-> <<Ascii["{"]>> \o PrintLeading(m, keys, n - 1)
                      \o PrintEntry(m, keys[n]) \o <<Ascii["}"], NL>>]

(***************************************************************************)
(* The input files of the model.                                           *)
(***************************************************************************)
\* the lines generated files are made of: records, a key holding ';', a
\* key holding a NUL byte, a line without ';', a value that is no number,
\* a one-byte line and the empty line
Lines ==
    { Bytes(<<"a", ";", "1">>),
      Bytes(<<"b", ";", "-", "2">>),
      Bytes(<<"a", ";", "1", "0", ".", "0">>),
      Bytes(<<"a", ";", "b", ";", "5", ".", "5">>),
      Bytes(<<"a", "NUL", ";", "1">>),
      Bytes(<<"1", "2">>),
      Bytes(<<"a", ";", "x">>),
      Bytes(<<"x">>),
      <<>> }

\* the lines, each followed by a newline
RECURSIVE JoinLines(_)
JoinLines(ls) ==
    IF Len(ls) = 0 THEN <<>>
    ELSE ls[1] \o <<NL>> \o JoinLines(Tail(ls))

\* every file of up to MaxRecords lines, the last one terminated or not
GeneratedFiles ==
    LET lists == UNION {[1..n -> Lines] : n \in 0..MaxRecords}
        whole == {JoinLines(ls) : ls \in lists}
    IN  whole \cup {SubSeq(f, 1, Len(f) - 1) : f \in whole \ {<<>>}}

ScenarioA ==
    JoinLines(<<Bytes(<<"S","t","a","t","i","o","n","A",";","1","0",".","0">>),
                Bytes(<<"S","t","a","t","i","o","n","B",";","2","0",".","0">>),
                Bytes(<<"S","t","a","t","i","o","n","A",";","3","0",".","0">>)>>)

ScenarioB == Bytes(<<"X", ";", "5", ".", "5">>)

\* two terminated records and an unterminated one that the planner, with 3
\* to 5 cores, gives a chunk each
ThreeChunks ==
    JoinLines(<<Bytes(<<"a", ";", "1", "0", ".", "0">>),
                Bytes(<<"b", ";", "2", "0", ".", "0">>)>>)
    \o Bytes(<<"a", ";", "1">>)

\* four records of one key whose values add up to 0.6 in one order and to
\* the next f64 above it in another; the planner, with 4 cores, gives the
\* first two records one chunk and the other two a chunk each
TenthsFile ==
    JoinLines(<<Bytes(<<"a", ";", "0">>),
                Bytes(<<"a", ";", "0", ".", "1">>),
                Bytes(<<"a", ";", "0", ".", "2">>)>>)
    \o Bytes(<<"a", ";", "0", ".", "3">>)

\* a record whose value is the literal NaN, alone and before a record of
\* the same key
NaNRecord == JoinLines(<<Bytes(<<"a", ";", "N", "a", "N">>)>>)

NaNThenNumber ==
    JoinLines(<<Bytes(<<"a", ";", "N", "a", "N">>)>>) \o Bytes(<<"a", ";", "1">>)

\* two terminated records of one key, the first value negative
NegativeValues ==
    JoinLines(<<Bytes(<<"Y", ";", "-", "3", ".", "2">>),
                Bytes(<<"Y", ";", "1", ".", "0">>)>>)

Files ==
    GeneratedFiles \cup {ScenarioA, ScenarioB, ThreeChunks, TenthsFile,
                          NegativeValues, NaNRecord, NaNThenNumber}

(***************************************************************************)
(* main: the planner (lines 55-77).                                        *)
(***************************************************************************)
length == Len(file)

\* Division by twice the number of cores: a stride half as long
HalfDivision(len, n) == len \div (2 * n)

\* ((length / cores) as f64).ceil() as usize: the division is usize's
Division(len, n) == len \div n

division == Division(length, cores)

\* agg holds the Stations of a run of Station's methods on their own
\* (AggSpec); main has none
NoStations == <<>>

Init ==
    /\ file \in Files
    /\ cores \in 1..MaxCores
    /\ pcMain = "plan"
    /\ iter = 0
    /\ pos = 0
    /\ buf = 0
    /\ starting_offsets = <<0>>
    /\ wpc = <<>>
    /\ block_results = <<>>
    /\ fold_order = <<>>
    /\ lockHolder = 0
    /\ results = EmptyMap
    /\ output = <<>>
    /\ agg = NoStations

\* the head of one iteration of the for loop: the relative seek, the test
\* against length, and the fresh buf
PlanSeek ==
    /\ pcMain = "plan"
    /\ IF iter < cores
       THEN /\ pos' = pos + division
            /\ IF pos + division >= length
               THEN pcMain' = "spawn" /\ buf' = buf
               ELSE pcMain' = "scan" /\ buf' = 0
       ELSE pcMain' = "spawn" /\ UNCHANGED <<pos, buf>>
    /\ UNCHANGED <<file, cores, iter, starting_offsets, wpc, block_results,
                   fold_order, lockHolder, results, output, agg>>

\* ScanStops with the separator taken for a terminator as well
ScanStopsAtSeparator(b) == b = NL \/ b = NUL \/ b = SEMI

\* line 72: the test that ends the inner loop
ScanStops(b) == b = NL \/ b = NUL

\* one turn of the inner loop: read() of one byte, which at end of file
\* returns 0 and leaves buf as it was, and the test of buf[0]
PlanScan ==
    /\ pcMain = "scan"
    /\ LET got == pos < length
           b   == IF got THEN file[pos + 1] ELSE buf
           p   == IF got THEN pos + 1 ELSE pos
       IN  /\ buf' = b
           /\ pos' = p
           /\ IF ScanStops(b)
              THEN /\ starting_offsets' = Append(starting_offsets, p)
                   /\ iter' = iter + 1
                   /\ pcMain' = "plan"
              ELSE UNCHANGED <<starting_offsets, iter, pcMain>>
    /\ UNCHANGED <<file, cores, wpc, block_results, fold_order, lockHolder,
                   results, output, agg>>

(***************************************************************************)
(* main: the scoped threads (lines 82-150).                                *)
(***************************************************************************)
Workers == 1..Len(wpc)

\* scope.spawn for the next i of 0..starting_offsets.len()
Spawn ==
    /\ pcMain = "spawn"
    /\ wpc' = Append(wpc, "run")
    /\ block_results' = Append(block_results, EmptyMap)
    /\ pcMain' = IF Len(wpc) + 1 = Len(starting_offsets) THEN "join" ELSE "spawn"
    /\ UNCHANGED <<file, cores, iter, pos, buf, starting_offsets, fold_order,
                   lockHolder, results, output, agg>>

\* lines 91-95, for the thread with index w - 1
ChunkOffset(offsets, w) == offsets[w]

\* ChunkSize with the terminator left out of every chunk but the last
ChunkSizeWithoutTerminator(offsets, len, w) ==
    IF w - 1 < Len(offsets) - 1 THEN offsets[w + 1] - offsets[w] - 1
    ELSE len - offsets[w]

ChunkSize(offsets, len, w) ==
    IF w - 1 < Len(offsets) - 1 THEN offsets[w + 1] - offsets[w]
    ELSE len - offsets[w]

\* the bytes read() puts in contents
ChunkBytes(f, offsets, w) ==
    SubSeq(f, ChunkOffset(offsets, w) + 1,
           ChunkOffset(offsets, w) + ChunkSize(offsets, Len(f), w))

\* lines 89-140: read the chunk and tokenize it
WorkerRun(w) ==
    /\ wpc[w] = "run"
    /\ LET r == ProcessChunk[ChunkBytes(file, starting_offsets, w)]
       IN  IF r.panic
           THEN /\ wpc' = [wpc EXCEPT ![w] = "panicked"]
                /\ UNCHANGED block_results
           ELSE /\ wpc' = [wpc EXCEPT ![w] = "tokenized"]
                /\ block_results' = [block_results EXCEPT ![w] = r.map]
    /\ UNCHANGED <<file, cores, pcMain, iter, pos, buf, starting_offsets, fold_order,
                   lockHolder, results, output, agg>>

\* WorkerLock that does not wait for the lock to be free
WorkerLockUnguarded(w) ==
    /\ wpc[w] = "tokenized"
    /\ lockHolder' = w
    /\ wpc' = [wpc EXCEPT ![w] = "locked"]
    /\ UNCHANGED <<file, cores, pcMain, iter, pos, buf, starting_offsets,
                   block_results, fold_order, results, output, agg>>

\* line 142
WorkerLock(w) ==
    /\ wpc[w] = "tokenized"
    /\ lockHolder = 0
    /\ lockHolder' = w
    /\ wpc' = [wpc EXCEPT ![w] = "locked"]
    /\ UNCHANGED <<file, cores, pcMain, iter, pos, buf, starting_offsets,
                   block_results, fold_order, results, output, agg>>

\* results.entry(name).or_default().merge(station) for every local entry
FoldInto(global, local) ==
    [k \in DOMAIN global \cup DOMAIN local |->
        IF k \in DOMAIN local THEN merge(EntryOrDefault(global, k), local[k])
        ELSE global[k]]

\* lines 143-146; the loop consumes block_results.  fold_order records the
\* order in which the threads have folded.
WorkerFold(w) ==
    /\ wpc[w] = "locked"
    /\ results' = FoldInto(results, block_results[w])
    /\ block_results' = [block_results EXCEPT ![w] = EmptyMap]
    /\ fold_order' = Append(fold_order, w)
    /\ wpc' = [wpc EXCEPT ![w] = "folded"]
    /\ UNCHANGED <<file, cores, pcMain, iter, pos, buf, starting_offsets,
                   lockHolder, output, agg>>

\* line 147
WorkerUnlock(w) ==
    /\ wpc[w] = "folded"
    /\ lockHolder' = 0
    /\ wpc' = [wpc EXCEPT ![w] = "done"]
    /\ UNCHANGED <<file, cores, pcMain, iter, pos, buf, starting_offsets,
                   block_results, fold_order, results, output, agg>>

\* Join that does not wait for the threads to end
JoinWithoutWaiting ==
    /\ pcMain = "join"
    /\ pcMain' = IF \E w \in Workers : wpc[w] = "panicked"
                 THEN "panicked" ELSE "format"
    /\ UNCHANGED <<file, cores, iter, pos, buf, starting_offsets, wpc,
                   block_results, fold_order, lockHolder, results, output, agg>>

\* Join that goes on to print whether or not a thread has panicked
JoinIgnoringPanics ==
    /\ pcMain = "join"
    /\ \A w \in Workers : wpc[w] \in {"done", "panicked"}
    /\ pcMain' = "format"
    /\ UNCHANGED <<file, cores, iter, pos, buf, starting_offsets, wpc,
                   block_results, fold_order, lockHolder, results, output, agg>>

\* the end of thread::scope: every thread is joined, and a panic of any of
\* them is raised again in main
Join ==
    /\ pcMain = "join"
    /\ \A w \in Workers : wpc[w] \in {"done", "panicked"}
    /\ pcMain' = IF \E w \in Workers : wpc[w] = "panicked"
                 THEN "panicked" ELSE "format"
    /\ UNCHANGED <<file, cores, iter, pos, buf, starting_offsets, wpc,
                   block_results, fold_order, lockHolder, results, output, agg>>

\* lines 152-163
Format ==
    /\ pcMain = "format"
    /\ output' = PrintResults(results).out
    /\ pcMain' = IF PrintResults(results).panic THEN "panicked" ELSE "done"
    /\ UNCHANGED <<file, cores, iter, pos, buf, starting_offsets, wpc,
                   block_results, fold_order, lockHolder, results, agg>>

Next ==
    \/ PlanSeek
    \/ PlanScan
    \/ Spawn
    \/ \E w \in Workers : WorkerRun(w)
    \/ \E w \in Workers : WorkerLock(w)
    \/ \E w \in Workers : WorkerFold(w)
    \/ \E w \in Workers : WorkerUnlock(w)
    \/ Join
    \/ Format

Spec == Init /\ [][Next]_vars

\* the scheduler lets main and the threads run: a step that can be taken
\* is taken in the end
FairSpec == Spec /\ WF_vars(Next)

(***************************************************************************)
(* Station's methods on their own: the values of a list are folded, in any *)
(* order, each into one of two Stations and into a third that gets them    *)
(* all, and the two are merged.                                            *)
(***************************************************************************)
\* the values, in tenths: 0.1, 0.2, 0.3, -3.2, 1.0
AggValues == {1, 2, 3, -32, 10}

\* the largest number of values of a run
MaxValues == 3

Remove(seq, i) == SubSeq(seq, 1, i - 1) \o SubSeq(seq, i + 1, Len(seq))

AggInit ==
    /\ file = <<>>
    /\ cores = 1
    /\ pcMain = "plan"
    /\ iter = 0
    /\ pos = 0
    /\ buf = 0
    /\ starting_offsets = <<0>>
    /\ wpc = <<>>
    /\ block_results = <<>>
    /\ fold_order = <<>>
    /\ lockHolder = 0
    /\ results = EmptyMap
    /\ output = <<>>
    /\ \E vs \in UNION {[1..n -> AggValues] : n \in 0..MaxValues} :
          agg = [values |-> vs, todo |-> vs, left |-> StationDefault,
                 right |-> StationDefault, all |-> StationDefault, merged |-> <<>>]

\* left.update(value) and all.update(value), for any value still to fold
UpdateLeft ==
    /\ agg # NoStations
    /\ \E i \in 1..Len(agg.todo) :
          agg' = [agg EXCEPT !.todo = Remove(@, i),
                             !.left = update(@, agg.todo[i]),
                             !.all = update(@, agg.todo[i])]
    /\ UNCHANGED <<file, cores, pcMain, iter, pos, buf, starting_offsets, wpc,
                   block_results, fold_order, lockHolder, results, output>>

\* right.update(value) and all.update(value), for any value still to fold
UpdateRight ==
    /\ agg # NoStations
    /\ \E i \in 1..Len(agg.todo) :
          agg' = [agg EXCEPT !.todo = Remove(@, i),
                             !.right = update(@, agg.todo[i]),
                             !.all = update(@, agg.todo[i])]
    /\ UNCHANGED <<file, cores, pcMain, iter, pos, buf, starting_offsets, wpc,
                   block_results, fold_order, lockHolder, results, output>>

\* left.merge(right), right.merge(left) and Station::default().merge(left)
Merge ==
    /\ agg # NoStations
    /\ agg.todo = <<>>
    /\ agg.merged = <<>>
    /\ agg' = [agg EXCEPT !.merged = <<merge(agg.left, agg.right),
                                       merge(agg.right, agg.left),
                                       merge(StationDefault, agg.left)>>]
    /\ UNCHANGED <<file, cores, pcMain, iter, pos, buf, starting_offsets, wpc,
                   block_results, fold_order, lockHolder, results, output>>

AggNext == UpdateLeft \/ UpdateRight \/ Merge

AggSpec == AggInit /\ [][AggNext]_vars

(***************************************************************************)
(* Vocabulary of the properties.                                           *)
(***************************************************************************)
\* the lines of a byte string: every newline ends one, and bytes after the
\* last newline are a line of their own
RECURSIVE LinesOf(_)
LinesOf(f) ==
    IF Len(f) = 0 THEN <<>>
    ELSE LET nls == {k \in 1..Len(f) : f[k] = NL}
         IN  IF nls = {} THEN <<f>>
             ELSE LET k == CHOOSE n \in nls : \A o \in nls : n <= o
                  IN  <<SubSeq(f, 1, k - 1)>> \o LinesOf(SubSeq(f, k + 1, Len(f)))

\* a line has a separator and the bytes after its last separator are a number
Parses(line) ==
    \E j \in 1..Len(line) :
        /\ line[j] = SEMI
        /\ \A k \in (j + 1)..Len(line) : line[k] # SEMI
        /\ ParseF64[SubSeq(line, j + 1, Len(line))].ok

\* a line whose last bytes are the literal NaN
EndsInNaN(line) ==
    Len(line) >= 3 /\ IsNaNLiteral(SubSeq(line, Len(line) - 2, Len(line)))

\* a record of text: it parses to a decimal number, its key is not empty
\* and it holds no NUL byte
WellFormedRecord(line) ==
    /\ Parses(line)
    /\ ~EndsInNaN(line)
    /\ line[1] # SEMI
    /\ \A k \in 1..Len(line) : line[k] # NUL

\* a well-formed file: records only, the final terminator optional
WellFormed(f) ==
    \A k \in 1..Len(LinesOf(f)) : WellFormedRecord(LinesOf(f)[k])

\* a file made of newline-terminated records
TerminatedRecords(f) ==
    WellFormed(f) /\ (Len(f) > 0 => f[Len(f)] = NL)

\* main has reached the end of the program or has panicked
Ended == pcMain \in {"done", "panicked"}

\* the planner's scan has read to the end of the file and goes on reading
ScanAtEof == pcMain = "scan" /\ pos >= length /\ ~ScanStops(buf)

\* the planner has left its loop
Planned == pcMain \notin {"plan", "scan"}

\* every thread has been spawned
AllSpawned == Planned /\ Len(wpc) = Len(starting_offsets)

\* the map a run with one partition ends with: the whole file is one chunk
SinglePartition(f) == FoldInto(EmptyMap, ProcessChunk[f].map)

(***************************************************************************)
(* C1.  Scenario A: with every number of cores the run on                  *)
(* "StationA;10.0\nStationB;20.0\nStationA;30.0\n" ends without a panic,   *)
(* with StationA = 10.0/20.0/30.0 and StationB = 20.0/20.0/20.0 printed in *)
(* that order.                                                             *)
(***************************************************************************)
StationA == Bytes(<<"S", "t", "a", "t", "i", "o", "n", "A">>)
StationB == Bytes(<<"S", "t", "a", "t", "i", "o", "n", "B">>)

ScenarioAResults ==
    (StationA :> [min |-> 100, max |-> 300, sum |-> F64OfTenths[400], values_read |-> 2])
    @@ (StationB :> [min |-> 200, max |-> 200, sum |-> F64OfTenths[200], values_read |-> 1])

ScenarioAOutput ==
    Bytes(<<"{", "S","t","a","t","i","o","n","A", "=",
            "1","0",".","0", "/", "2","0",".","0", "/", "3","0",".","0",
            ",", " ", "S","t","a","t","i","o","n","B", "=",
            "2","0",".","0", "/", "2","0",".","0", "/", "2","0",".","0",
            "}", "NL">>)

C1_ScenarioA ==
    file = ScenarioA =>
        /\ ~ScanAtEof
        /\ pcMain # "panicked"
        /\ pcMain = "done" => results = ScenarioAResults /\ output = ScenarioAOutput

(***************************************************************************)
(* C2.  The planner terminates: a scan that has reached the end of the     *)
(* file stops, so the inner loop never goes on reading with the cursor at  *)
(* the end of the file and no terminator in buf.                           *)
(***************************************************************************)
C2_ScanStopsAtEof == ~ScanAtEof

(***************************************************************************)
(* C3.  No empty partition: every byte range a thread is spawned for has   *)
(* at least one byte.                                                      *)
(***************************************************************************)
C3_NoEmptyPartition ==
    \A w \in Workers : ChunkSize(starting_offsets, length, w) >= 1

(***************************************************************************)
(* C4.  Scenario C: on a well-formed file shorter than the number of       *)
(* cores the run ends without a panic and with the map a run with one      *)
(* partition produces.                                                     *)
(***************************************************************************)
C4_SmallFileAsSinglePartition ==
    (WellFormed(file) /\ length >= 1 /\ length < cores) =>
        /\ ~ScanAtEof
        /\ pcMain # "panicked"
        /\ pcMain = "done" => results = SinglePartition(file)

(***************************************************************************)
(* C5.  Scenario B: with every number of cores the run on "X;5.5" ends     *)
(* without a panic, with the one key X, folded once: 5.5/5.5/5.5.          *)
(***************************************************************************)
ScenarioBResults ==
    Bytes(<<"X">>) :> [min |-> 55, max |-> 55, sum |-> F64OfTenths[55], values_read |-> 1]

ScenarioBOutput ==
    Bytes(<<"{", "X", "=", "5",".","5", "/", "5",".","5", "/", "5",".","5",
            "}", "NL">>)

C5_ScenarioB ==
    file = ScenarioB =>
        /\ ~ScanAtEof
        /\ pcMain # "panicked"
        /\ pcMain = "done" => results = ScenarioBResults /\ output = ScenarioBOutput

RECURSIVE ConcatChunks(_, _, _)
ConcatChunks(f, offsets, n) ==
    IF n = 0 THEN <<>>
    ELSE ConcatChunks(f, offsets, n - 1) \o ChunkBytes(f, offsets, n)

C7_ChunksPartitionFile ==
    AllSpawned =>
        LET n == Len(wpc)
        IN  /\ ChunkOffset(starting_offsets, 1) = 0
            /\ \A w \in 1..n : ChunkSize(starting_offsets, length, w) >= 0
            /\ \A w \in 1..(n - 1) :
                  ChunkOffset(starting_offsets, w)
                  + ChunkSize(starting_offsets, length, w)
                  = ChunkOffset(starting_offsets, w + 1)
            /\ ChunkOffset(starting_offsets, n)
               + ChunkSize(starting_offsets, length, n) = length
            /\ ConcatChunks(file, starting_offsets, n) = file

\* three threads, each with bytes to read
C7_Witness ==
    /\ AllSpawned
    /\ Len(wpc) >= 3
    /\ \A w \in Workers : ChunkSize(starting_offsets, length, w) >= 1

(***************************************************************************)
(* C8.  Whatever the order in which the threads take the lock and fold,    *)
(* once all of them have finished the shared map is the one that folding   *)
(* the chunks' maps one after the other in offset order gives, and what    *)
(* main prints lists its keys in ascending byte order.                     *)
(***************************************************************************)
RECURSIVE SequentialFold(_, _, _)
SequentialFold(f, offsets, n) ==
    IF n = 0 THEN EmptyMap
    ELSE FoldInto(SequentialFold(f, offsets, n - 1),
                  ProcessChunk[ChunkBytes(f, offsets, n)].map)

\* the entries of m under the keys ks[1..n], ", " between them
RECURSIVE JoinEntries(_, _, _)
JoinEntries(m, ks, n) ==
    IF n = 0 THEN <<>>
    ELSE JoinEntries(m, ks, n - 1)
         \o (IF n = 1 THEN <<>> ELSE <<Ascii[","], Ascii[" "]>>)
         \o ks[n] \o <<Ascii["="]>> \o StationDisplay(m[ks[n]])

\* the line for m with its keys in ascending order
AscendingPrint(m) ==
    LET n  == Cardinality(DOMAIN m)
        ks == CHOOSE s \in [1..n -> DOMAIN m] :
                  \A i, j \in 1..n : i < j => LexLess(s[i], s[j])
    IN  <<Ascii["{"]>> \o JoinEntries(m, ks, n) \o <<Ascii["}"], NL>>

AllFinished == AllSpawned /\ \A w \in Workers : wpc[w] = "done"

C8_ScheduleIndependent ==
    /\ AllFinished => results = SequentialFold(file, starting_offsets, Len(wpc))
    /\ pcMain = "done" => output = AscendingPrint(results)

(***************************************************************************)
(* C9.  An empty result map is printed as "{}" and the run ends without    *)
(* error: so for the zero-length file, and whenever main gets to print a   *)
(* map with no keys.                                                       *)
(***************************************************************************)
EmptyOutput == <<Ascii["{"], Ascii["}"], NL>>

C9_EmptyMappingPrintsBraces ==
    (DOMAIN results = {} /\ (Len(output) > 0 \/ (Ended /\ length = 0))) =>
        pcMain = "done" /\ output = EmptyOutput

(***************************************************************************)
(* C10.  A parse error is fatal: a thread gets past its tokenizing only    *)
(* when every record of its chunk has a separator and a number after its   *)
(* last separator.                                                         *)
(***************************************************************************)
ChunkRecords(w) ==
    LET ls == LinesOf(ChunkBytes(file, starting_offsets, w))
    IN  {ls[k] : k \in {i \in 1..Len(ls) : Len(ls[i]) > 0}}

C10_ParseErrorFatal ==
    \A w \in Workers :
        wpc[w] \notin {"run", "panicked"} =>
            \A rec \in ChunkRecords(w) : Parses(rec)

(***************************************************************************)
(* C11.  No partial result: once a thread has panicked, main never gets to *)
(* print and nothing is ever written, also when the other threads have     *)
(* folded their maps into the shared one.                                  *)
(***************************************************************************)
SomePanicked == \E w \in Workers : wpc[w] = "panicked"

C11_NoPartialResult ==
    SomePanicked => output = <<>> /\ pcMain \notin {"format", "done"}

\* main has ended by the panic of one thread after another thread has
\* folded a map with a key into the shared map
C11_Witness ==
    /\ pcMain = "panicked"
    /\ SomePanicked
    /\ \E w \in Workers : wpc[w] = "done"
    /\ DOMAIN results # {}

(***************************************************************************)
(* C12.  Last separator wins.  When every line of a thread's chunk has a   *)
(* separator and a number after its last separator, the thread does not    *)
(* panic and its local map is the one that taking, of every line, the      *)
(* bytes before the last separator as the key and the number after it as   *)
(* the value gives: so for keys that hold separators, for the terminated   *)
(* lines and for a last line without a terminator.                         *)
(***************************************************************************)
\* the position of the last separator of a line that has one
LastSeparator(line) ==
    CHOOSE j \in 1..Len(line) :
        line[j] = SEMI /\ \A k \in (j + 1)..Len(line) : line[k] # SEMI

KeyOf(line) == SubSeq(line, 1, LastSeparator(line) - 1)

ValueOf(line) == ParseF64[SubSeq(line, LastSeparator(line) + 1, Len(line))].val

\* the map of the first n lines of ls
RECURSIVE MapOfLines(_, _)
MapOfLines(ls, n) ==
    IF n = 0 THEN EmptyMap
    ELSE LET m == MapOfLines(ls, n - 1)
         IN  MapPut(m, KeyOf(ls[n]),
                    update(EntryOrDefault(m, KeyOf(ls[n])), ValueOf(ls[n])))

ChunkLines(w) == LinesOf(ChunkBytes(file, starting_offsets, w))

\* the chunk of thread w has lines, and every one of them parses
ChunkParses(w) ==
    /\ Len(ChunkLines(w)) >= 1
    /\ \A k \in 1..Len(ChunkLines(w)) : Parses(ChunkLines(w)[k])

C12_LastSeparatorWins ==
    \A w \in Workers :
        ChunkParses(w) =>
            /\ wpc[w] # "panicked"
            /\ wpc[w] \in {"tokenized", "locked"} =>
                  block_results[w] = MapOfLines(ChunkLines(w), Len(ChunkLines(w)))

\* a thread has tokenized a chunk of a terminated line and a last line
\* without a terminator, the key of each holding a separator
C12_Witness ==
    \E w \in Workers :
        /\ wpc[w] = "tokenized"
        /\ ChunkParses(w)
        /\ Len(ChunkLines(w)) >= 2
        /\ ChunkBytes(file, starting_offsets, w)[ChunkSize(starting_offsets, length, w)] # NL
        /\ \A k \in 1..Len(ChunkLines(w)) : SEMI \in {KeyOf(ChunkLines(w)[k])[i] : i \in 1..Len(KeyOf(ChunkLines(w)[k]))}

(***************************************************************************)
(* C13.  Mutual exclusion on the shared map.  At most one thread is        *)
(* between its lock and its unlock, and it is the holder of the lock; a    *)
(* thread that has not finished tokenizing does not hold the lock; a       *)
(* thread has folded once when it has passed its fold and never before,    *)
(* so it holds the lock for one fold; a thread that has ended does not     *)
(* hold the lock; and the shared map changes only in the step of the       *)
(* thread that holds the lock and has not folded yet.                      *)
(***************************************************************************)
InCritical(w) == wpc[w] \in {"locked", "folded"}

FoldsOf(w) == Cardinality({i \in 1..Len(fold_order) : fold_order[i] = w})

MutualExclusion ==
    /\ Cardinality({w \in Workers : InCritical(w)}) <= 1
    /\ \A w \in Workers : InCritical(w) <=> lockHolder = w
    /\ lockHolder \in Workers \cup {0}
    /\ \A w \in Workers :
          FoldsOf(w) = IF wpc[w] \in {"folded", "done"} THEN 1 ELSE 0

FoldUnderLock ==
    results' # results =>
        \E w \in Workers :
            /\ lockHolder = w
            /\ wpc[w] = "locked"
            /\ wpc' = [wpc EXCEPT ![w] = "folded"]
            /\ lockHolder' = w

C13_MutualExclusion == []MutualExclusion /\ [][FoldUnderLock]_vars

\* a thread has folded a map with a key and still holds the lock while
\* another thread has tokenized and waits for it
C13_Witness ==
    \E w, v \in Workers :
        /\ wpc[w] = "folded"
        /\ wpc[v] = "tokenized"
        /\ DOMAIN results # {}

(***************************************************************************)
(* C14.  Fork-join.  main prints only when every thread it has spawned has *)
(* folded and unlocked; it prints once: output is written in the one step  *)
(* from "format", which main enters from the join alone and never again;   *)
(* and when the scheduler is fair, once the planner has cut a well-formed  *)
(* file into partitions none of which is empty, every thread gets the lock *)
(* and ends and main prints.                                               *)
(***************************************************************************)
NonEmptyPartitions ==
    \A k \in 1..Len(starting_offsets) : ChunkSize(starting_offsets, length, k) >= 1

PrintsAfterJoin ==
    pcMain \in {"format", "done"} => AllFinished /\ lockHolder = 0

PrintsOnce ==
    /\ output' # output => pcMain = "format" /\ output = <<>>
    /\ pcMain' = "format" /\ pcMain # "format" => pcMain = "join"
    /\ pcMain \in {"format", "done", "panicked"} => pcMain' # "join"

C14_ForkJoin ==
    /\ []PrintsAfterJoin
    /\ [][PrintsOnce]_vars
    /\ (Planned /\ WellFormed(file) /\ NonEmptyPartitions)
          ~> (pcMain = "done" /\ AllFinished /\ Len(fold_order) = Len(wpc))

\* main has printed the map of a well-formed file that three threads, none
\* with an empty partition, have folded
C14_Witness ==
    /\ pcMain = "done"
    /\ WellFormed(file)
    /\ NonEmptyPartitions
    /\ Len(wpc) >= 3
    /\ Len(fold_order) = Len(wpc)

(***************************************************************************)
(* C15.  Reduction equivalence of Station.  Whatever the order in which    *)
(* the values are folded and however they are split in two parts, merging  *)
(* the Stations of the two parts gives the (min, max, sum, count) that     *)
(* folding all values into one default Station in the order of the list    *)
(* gives; so does folding them all in any other order; merging right into  *)
(* left and left into right give the same; and merging a Station into a    *)
(* default one gives that Station.                                         *)
(***************************************************************************)
\* the first n values of vs folded into a default Station
RECURSIVE FoldValues(_, _)
FoldValues(vs, n) ==
    IF n = 0 THEN StationDefault ELSE update(FoldValues(vs, n - 1), vs[n])

C15_ReductionEquivalence ==
    (agg # NoStations /\ agg.merged # <<>>) =>
        LET reference == FoldValues(agg.values, Len(agg.values))
        IN  /\ agg.merged[1] = reference
            /\ agg.all = reference
            /\ agg.merged[2] = agg.merged[1]
            /\ agg.merged[3] = agg.left

(***************************************************************************)
(* C16: every key of a chunk-local map and of the shared map has a count   *)
(* of at least 1 and a minimum that is at most its maximum.                *)
(***************************************************************************)
\* the maps of the program: the threads' block_results and results
Mappings == {block_results[w] : w \in Workers} \cup {results}

\* C16: in every reachable state every key in a chunk-local map or in the
\* shared map has values_read >= 1 and min <= max, the defaults f64::MAX and
\* f64::MIN having been overwritten.
C16_KeysHaveRecords ==
    \A m \in Mappings : \A k \in DOMAIN m :
        /\ m[k].values_read >= 1
        /\ m[k].min <= m[k].max
        /\ m[k].min # F64_MAX
        /\ m[k].max # F64_MIN

(***************************************************************************)
(* C17: the stride of the planner is the quotient of the file length by    *)
(* the core count, rounded up.                                             *)
(***************************************************************************)
\* ceil(len / n) of the real quotient
Ceiling(len, n) == (len + n - 1) \div n

\* a seek of the planner: the head of an iteration of its for loop
Seeks == pcMain = "plan" /\ iter < cores /\ pcMain' # "plan"

\* C17: every seek of the planner advances the position by ceil(L / P), for
\* the file length L and the core count P: by 0 only when L = 0, and by
\* floor(L / P) + 1 when P does not divide L.
C17_StrideIsCeiling ==
    [][Seeks => pos' = pos + Ceiling(length, cores)]_vars

(***************************************************************************)
(* C18: over a well-formed file cut into non-empty chunks at terminators,  *)
(* every record is folded once: the shared map is the aggregate of the     *)
(* file's records.                                                         *)
(***************************************************************************)
\* every offset but the first follows a terminator
TerminatorAligned ==
    \A k \in 2..Len(starting_offsets) :
        /\ starting_offsets[k] \in 1..length
        /\ file[starting_offsets[k]] = NL

\* the aggregate of the records of f, taken in the order of the file
ReferenceAggregate(f) == MapOfLines(LinesOf(f), Len(LinesOf(f)))

\* the sum of values_read over the keys ks of m
RECURSIVE CountOver(_, _)
CountOver(m, ks) ==
    IF ks = {} THEN 0
    ELSE LET k == CHOOSE x \in ks : TRUE
         IN  m[k].values_read + CountOver(m, ks \ {k})

NegativeValuesOutput ==
    Bytes(<<"{", "Y", "=", "-", "3", ".", "2", "/", "-", "1", ".", "1", "/",
            "1", ".", "0", "}", "NL">>)

\* C18: when the planner has ended with non-empty chunks that start after
\* terminators, over a well-formed file whose values may be negative, then
\* once all threads have finished the counts of the shared map add up to the
\* number of records of the file and every key has the min, max, sum and
\* count of the reference aggregate of its records, the last record of a
\* chunk being terminated or not; "Y;-3.2\nY;1.0\n" prints {Y=-3.2/-1.1/1.0}.
C18_EveryRecordOnce ==
    (AllFinished /\ WellFormed(file) /\ NonEmptyPartitions /\ TerminatorAligned) =>
        /\ CountOver(results, DOMAIN results) = Len(LinesOf(file))
        /\ results = ReferenceAggregate(file)
        /\ (file = NegativeValues /\ pcMain = "done") => output = NegativeValuesOutput

(***************************************************************************)
(* C19: the planner makes at most as many offsets as there are cores, so   *)
(* at most that many threads are spawned.                                  *)
(***************************************************************************)
\* C19: in every state the list of starting offsets, the first 0 counted,
\* has at most P elements for the core count P, and so has the list of the
\* threads spawned, for every file length and content.
C19_AtMostCoresWorkers ==
    /\ Len(starting_offsets) <= cores
    /\ Len(wpc) <= cores

\* the planner has made as many chunks as there are cores, more than one,
\* and a thread has been spawned for each
C19_Witness ==
    /\ cores >= 2
    /\ Len(starting_offsets) = cores
    /\ Len(wpc) = cores

====
